---------------------------- MODULE Spec2Model ----------------------------
(***************************************************************************)
(* MotleyKuzuGraphStore (src/motleycrew/storage/kuzu_graph_store.py):      *)
(* typed node objects persisted in a Kuzu label-property graph database,   *)
(* and PythonREPLTool (src/motleycrew/tools/code/python_repl.py): a Python *)
(* console that keeps its state between the commands it is given.          *)
(*                                                                         *)
(* Python values are tagged records: None, PyStr(<<chars>>), PyInt(n),     *)
(* PyList(<<values>>).  A Python str is the sequence of its characters, so *)
(* that the JSON encoding, the reserved prefix and the decoding on read    *)
(* are computed character by character, as json.dumps / str.startswith /   *)
(* json.loads compute them.                                                *)
(***************************************************************************)
EXTENDS Integers, Sequences, FiniteSets, Bags, TLC

(***************************************************************************)
(* Bounds of the model.                                                    *)
(***************************************************************************)
\* rows the node tables take, in all, before inserts are no longer explored
MaxInserts == 3
\* edges the database holds before relation creation is no longer explored
MaxEdges == 2
\* the largest integer a command of the Python console binds or prints
MaxValue == 2
\* lines the Python console keeps in its buffer before runs are no longer explored
MaxLines == 2

(***************************************************************************)
(* Python values.                                                          *)
(***************************************************************************)
None == [t |-> "none"]
PyStr(s) == [t |-> "str", s |-> s]
PyInt(n) == [t |-> "int", n |-> n]
PyList(l) == [t |-> "list", l |-> l]

IsStr(v) == v.t = "str"

\* "JSON__"
JSON_CONTENT_PREFIX == <<"J", "S", "O", "N", "_", "_">>

\* str.startswith
StartsWith(s, p) == Len(s) >= Len(p) /\ SubSeq(s, 1, Len(p)) = p

\* s[n:]
DropPrefix(s, n) == SubSeq(s, n + 1, Len(s))

(***************************************************************************)
(* json.dumps, on None, int, str and list values.  The separator of a      *)
(* list is ", "; a quote or a backslash inside a string is escaped.        *)
(***************************************************************************)
Digits == <<"0", "1", "2", "3", "4", "5", "6", "7", "8", "9">>

RECURSIVE NatToChars(_)
NatToChars(n) == IF n < 10 THEN <<Digits[n + 1]>>
                 ELSE NatToChars(n \div 10) \o <<Digits[(n % 10) + 1]>>

RECURSIVE EscapeChars(_)
EscapeChars(s) ==
  IF s = <<>> THEN <<>>
  ELSE (IF Head(s) \in {"\"", "\\"} THEN <<"\\", Head(s)>> ELSE <<Head(s)>>)
       \o EscapeChars(Tail(s))

RECURSIVE json_dumps(_)
RECURSIVE DumpItems(_)
DumpItems(l) ==
  IF l = <<>> THEN <<>>
  ELSE IF Len(l) = 1 THEN json_dumps(l[1])
  ELSE json_dumps(Head(l)) \o <<",", " ">> \o DumpItems(Tail(l))

json_dumps(v) ==
  CASE v.t = "none" -> <<"n", "u", "l", "l">>
    [] v.t = "int"  -> (IF v.n < 0 THEN <<"-">> \o NatToChars(-v.n) ELSE NatToChars(v.n))
    [] v.t = "str"  -> <<"\"">> \o EscapeChars(v.s) \o <<"\"">>
    [] v.t = "list" -> <<"[">> \o DumpItems(v.l) \o <<"]">>

(***************************************************************************)
(* json.loads, on the same subset of JSON: null, integers, strings with    *)
(* the escapes \" and \\, arrays, and spaces as whitespace.  A parse       *)
(* returns [ok, v, rest]; anything else in the text is a JSONDecodeError   *)
(* (ok = FALSE).  The strings of the model hold no character that would    *)
(* begin another JSON form (true, false, a fraction, an object).           *)
(***************************************************************************)
ParseFail == [ok |-> FALSE, v |-> None, rest |-> <<>>]

RECURSIVE SkipWs(_)
SkipWs(s) == IF s # <<>> /\ Head(s) = " " THEN SkipWs(Tail(s)) ELSE s

DigitVal(c) == CHOOSE d \in 0..9 : Digits[d + 1] = c

IsDigit(c) == \E d \in 1..10 : Digits[d] = c

RECURSIVE ScanString(_, _)
ScanString(s, acc) ==
  IF s = <<>> THEN ParseFail
  ELSE IF Head(s) = "\"" THEN [ok |-> TRUE, v |-> PyStr(acc), rest |-> Tail(s)]
  ELSE IF Head(s) = "\\"
       THEN IF Len(s) >= 2 /\ s[2] \in {"\"", "\\"}
            THEN ScanString(SubSeq(s, 3, Len(s)), Append(acc, s[2]))
            ELSE ParseFail
  ELSE ScanString(Tail(s), Append(acc, Head(s)))

RECURSIVE ScanDigits(_, _)
ScanDigits(s, acc) ==
  IF s # <<>> /\ IsDigit(Head(s))
  THEN ScanDigits(Tail(s), acc * 10 + DigitVal(Head(s)))
  ELSE [ok |-> TRUE, v |-> PyInt(acc), rest |-> s]

\* an integer: "0", or a non-zero digit followed by digits
ScanNat(s) ==
  IF s = <<>> \/ ~IsDigit(Head(s)) THEN ParseFail
  ELSE IF Head(s) = "0" THEN [ok |-> TRUE, v |-> PyInt(0), rest |-> Tail(s)]
  ELSE ScanDigits(s, 0)

RECURSIVE ParseValue(_)
RECURSIVE ParseItems(_, _)
ParseItems(s, acc) ==
  LET r == ParseValue(SkipWs(s)) IN
  IF ~r.ok THEN ParseFail
  ELSE LET t == SkipWs(r.rest) IN
       IF t = <<>> THEN ParseFail
       ELSE IF Head(t) = "," THEN ParseItems(Tail(t), Append(acc, r.v))
       ELSE IF Head(t) = "]"
            THEN [ok |-> TRUE, v |-> PyList(Append(acc, r.v)), rest |-> Tail(t)]
       ELSE ParseFail

ParseValue(s) ==
  IF s = <<>> THEN ParseFail
  ELSE IF Head(s) = "\"" THEN ScanString(Tail(s), <<>>)
  ELSE IF Head(s) = "["
       THEN LET t == SkipWs(Tail(s)) IN
            IF t # <<>> /\ Head(t) = "]"
            THEN [ok |-> TRUE, v |-> PyList(<<>>), rest |-> Tail(t)]
            ELSE ParseItems(t, <<>>)
  ELSE IF Head(s) = "n"
       THEN IF StartsWith(s, <<"n", "u", "l", "l">>)
            THEN [ok |-> TRUE, v |-> None, rest |-> DropPrefix(s, 4)]
            ELSE ParseFail
  ELSE IF Head(s) = "-"
       THEN LET r == ScanNat(Tail(s)) IN
            IF r.ok THEN [ok |-> TRUE, v |-> PyInt(-r.v.n), rest |-> r.rest]
            ELSE ParseFail
  ELSE ScanNat(s)

json_loads(s) ==
  LET r == ParseValue(SkipWs(s)) IN
  IF r.ok /\ SkipWs(r.rest) = <<>> THEN [ok |-> TRUE, v |-> r.v]
  ELSE [ok |-> FALSE, v |-> None]

(***************************************************************************)
(* Node types.  Question is the node type of the module's own scenario     *)
(* (question: str, answer: Optional[str], context: Optional[List[str]]);   *)
(* Topic is a second caller-defined type with one field, name: str.        *)
(* The label of a node is its class name.                                  *)
(***************************************************************************)
Classes == {"Question", "Topic"}

model_fields(cls) ==
  IF cls = "Question" THEN {"question", "answer", "context"} ELSE {"name"}

Annotation(cls, f) ==
  CASE f = "question" -> "str"
    [] f = "answer"   -> "Optional[str]"
    [] f = "context"  -> "Optional[List[str]]"
    [] OTHER          -> "str"

\* whether the field is declared without a default: question and name are,
\* answer and context default to None
is_required(cls, f) == f \in {"question", "name"}

\* the node objects the caller holds, and the class of each
Objs == {"q1", "q2", "t1"}

ClassOf(o) == IF o = "t1" THEN "Topic" ELSE "Question"

get_label(o) == ClassOf(o)

\* relation labels the caller uses
Labels == {"p", "q"}

PYTHON_TO_CYPHER_TYPES_MAPPING ==
  [a \in {"int", "Optional[int]", "str", "Optional[str]",
          "float", "Optional[float]", "bool", "Optional[bool]"} |->
     CASE a \in {"int", "Optional[int]"}     -> "INT64"
       [] a \in {"str", "Optional[str]"}     -> "STRING"
       [] a \in {"float", "Optional[float]"} -> "DOUBLE"
       [] OTHER                              -> "BOOLEAN"]

\* <<cypher type, is_json>>
CypherTypeAndIsJson(annotation) ==
  IF annotation \in DOMAIN PYTHON_TO_CYPHER_TYPES_MAPPING
  THEN <<PYTHON_TO_CYPHER_TYPES_MAPPING[annotation], FALSE>>
  ELSE <<PYTHON_TO_CYPHER_TYPES_MAPPING["str"], TRUE>>

\* Pydantic's validation of one field value against the field's annotation
RECURSIVE AllStr(_)
AllStr(l) == IF l = <<>> THEN TRUE ELSE IsStr(Head(l)) /\ AllStr(Tail(l))

\* mutant of ValidValue: every value passes
ValidValue_any(annotation, v) == TRUE

ValidValue(annotation, v) ==
  CASE annotation = "str"                 -> v.t = "str"
    [] annotation = "Optional[str]"       -> v.t \in {"str", "none"}
    [] annotation = "Optional[List[str]]" -> IF v.t = "list" THEN AllStr(v.l) ELSE v.t = "none"
    [] OTHER                              -> FALSE

(***************************************************************************)
(* The state: the caller's node objects (identity, field values, and the   *)
(* "frozen" entry of model_config, which is a dict of the node's class)    *)
(* and the database (catalog, rows, SERIAL counters, edges).  Two parts of *)
(* the state belong to the libraries: pydantic's per-class memo of the     *)
(* assignment handlers, and whether the database's binder checks a         *)
(* relation pattern against the FROM/TO labels of the relation tables      *)
(* (fixed for a build of the database, either outcome possible).           *)
(***************************************************************************)
VARIABLES
  node_id,      \* [Objs -> None or PyInt(n)]: the object's _id
  fields,       \* [Objs -> [field name -> value]]: the object's field values
  frozen,       \* [Classes -> BOOLEAN]: model_config["frozen"] of the class
  node_tables,  \* labels of the node tables
  columns,      \* [Classes -> [column name -> cypher type]]
  serial,       \* [Classes -> next SERIAL id of the table]
  rows,         \* set of [label, id, props]
  rel_tables,   \* set of [name, src, dst]
  edges,        \* bag of [name, from, to]
  setattr_handlers,  \* [Classes -> set of field names]: the class's memo of
                     \* the fields whose assignment has succeeded once
  strict_binder,     \* BOOLEAN: whether this build of the database refuses a
                     \* relation pattern that no relation table can match
  console_locals,  \* PythonREPLTool.console.locals: [bound names -> value]
  console_buffer,  \* PythonREPLTool.console.buffer: the lines not yet run
  sys_stdout       \* sys.stdout: "terminal" or "StringIO"

storeVars == <<node_id, fields, frozen, node_tables, columns, serial, rows,
               rel_tables, edges, setattr_handlers, strict_binder>>

replVars == <<console_locals, console_buffer, sys_stdout>>

vars == <<node_id, fields, frozen, node_tables, columns, serial, rows,
          rel_tables, edges, setattr_handlers, strict_binder,
          console_locals, console_buffer, sys_stdout>>

\* the state as one record, for the operations that are sequences of queries
State ==
  [node_id |-> node_id, fields |-> fields, frozen |-> frozen,
   node_tables |-> node_tables, columns |-> columns, serial |-> serial,
   rows |-> rows, rel_tables |-> rel_tables, edges |-> edges,
   setattr_handlers |-> setattr_handlers, strict_binder |-> strict_binder]

Ok(s) == [s |-> s, ok |-> TRUE, err |-> ""]
Raise(s, e) == [s |-> s, ok |-> FALSE, err |-> e]

EmptyFcn == [x \in {} |-> None]

(***************************************************************************)
(* The database.  Table names are unique in the catalog, node tables and   *)
(* relation tables together; a relation table has one FROM/TO pair; SERIAL *)
(* counts up from 0 and is never reused; an added column is NULL in the    *)
(* rows that exist; a relation table accepts parallel edges.  The relation *)
(* labels of the model are distinct from the node class names.             *)
(***************************************************************************)
CatalogNames(s) == s.node_tables \cup {r.name : r \in s.rel_tables}

_check_node_table_exists(s, label) == label \in s.node_tables

\* mutant of _check_rel_table_exists: the labels of the endpoints are not
\* compared
_check_rel_table_exists_by_name(s, from_label, to_label, rel_label) ==
  \E row \in s.rel_tables : rel_label = {} \/ row.name \in rel_label

\* rel_label is {} when the label is omitted, {label} otherwise
_check_rel_table_exists(s, from_label, to_label, rel_label) ==
  \E row \in s.rel_tables :
     /\ (rel_label = {} \/ row.name \in rel_label)
     /\ row.src = from_label
     /\ row.dst = to_label

_get_node_property_names(s, label) == DOMAIN s.columns[label]

\* CREATE NODE TABLE label (id SERIAL, PRIMARY KEY(id))
CreateNodeTable(s, label) ==
  IF label \in CatalogNames(s) THEN Raise(s, "RuntimeError")
  ELSE Ok([s EXCEPT !.node_tables = @ \cup {label}])

\* ALTER TABLE label ADD name type
AlterTableAdd(s, label, name, type) ==
  [s EXCEPT !.columns[label] =
              [c \in DOMAIN @ \cup {name} |-> IF c = name THEN type ELSE @[c]],
            !.rows = {IF r.label = label
                      THEN [r EXCEPT !.props =
                              [c \in DOMAIN @ \cup {name} |->
                                 IF c = name THEN None ELSE @[c]]]
                      ELSE r : r \in @}]

\* CREATE REL TABLE name (FROM src TO dst)
CreateRelTable(s, name, src, dst) ==
  IF name \in CatalogNames(s) THEN Raise(s, "RuntimeError")
  ELSE Ok([s EXCEPT !.rel_tables = @ \cup {[name |-> name, src |-> src, dst |-> dst]}])

RowsOf(s, label, id) == {r \in s.rows : r.label = label /\ r.id = id}

\* the labels of the relation table an edge is in
RelOf(s, e) == CHOOSE r \in s.rel_tables : r.name = e.name

NumEdges(s) == BagCardinality(s.edges)

(***************************************************************************)
(* MotleyKuzuGraphStore.  Each operation maps a state to [s, ok, err]: the *)
(* state it leaves, and whether it returned or raised.  An operation that  *)
(* raises midway leaves the effects of the queries it has executed.        *)
(***************************************************************************)
\* mutant of _set_node_id: the identity is not assigned
_set_node_id_dropped(s, o, id) == s

_set_node_id(s, o, id) == [s EXCEPT !.node_id[o] = id]

_freeze_node(s, o) ==
  IF s.node_id[o] = None THEN Raise(s, "AssertionError")
  ELSE Ok([s EXCEPT !.frozen[ClassOf(o)] = TRUE])

_unfreeze_node(s, o) == [s EXCEPT !.frozen[ClassOf(o)] = FALSE]

RECURSIVE AddColumns(_, _, _)
AddColumns(s, label, missing) ==
  IF missing = {} THEN s
  ELSE LET f == CHOOSE x \in missing : TRUE IN
       AddColumns(AlterTableAdd(s, label, f, CypherTypeAndIsJson(Annotation(label, f))[1]),
                  label, missing \ {f})

\* mutant of _ensure_node_table: only the fields with a value get a column
_ensure_node_table_non_null(s, o) ==
  LET table_name == get_label(o)
      r == IF ~_check_node_table_exists(s, table_name)
           THEN CreateNodeTable(s, table_name)
           ELSE Ok(s)
  IN IF ~r.ok THEN r
     ELSE Ok(AddColumns(r.s, table_name,
                        {f \in model_fields(ClassOf(o)) : s.fields[o][f] # None}
                          \ _get_node_property_names(r.s, table_name)))

\* The primary key column id is not a property column here: no node class of
\* the model declares a field named id.
_ensure_node_table(s, o) ==
  LET table_name == get_label(o)
      r == IF ~_check_node_table_exists(s, table_name)
           THEN CreateNodeTable(s, table_name)
           ELSE Ok(s)
  IN IF ~r.ok THEN r
     ELSE Ok(AddColumns(r.s, table_name,
                        model_fields(ClassOf(o)) \ _get_node_property_names(r.s, table_name)))

_ensure_relation_table(s, from_node, to_node, label) ==
  IF ~_check_rel_table_exists(s, get_label(from_node), get_label(to_node), {label})
  THEN CreateRelTable(s, label, get_label(from_node), get_label(to_node))
  ELSE Ok(s)

check_node_exists_by_class_and_id(s, node_class, id) ==
  IF ~_check_node_table_exists(s, node_class) THEN FALSE
  ELSE RowsOf(s, node_class, id) # {}

\* mutant of check_node_exists: a missing identity is looked up as identity 0
check_node_exists_none_as_zero(s, o) ==
  check_node_exists_by_class_and_id(s, ClassOf(o),
                                    IF s.node_id[o] = None THEN 0 ELSE s.node_id[o].n)

check_node_exists(s, o) ==
  IF s.node_id[o] = None THEN FALSE
  ELSE check_node_exists_by_class_and_id(s, ClassOf(o), s.node_id[o].n)

\* mutant of MatchEdges: the label of the edge is not compared
MatchEdges_any_label(s, from_label, from_id, to_label, to_id, rel_label) ==
  {e \in BagToSet(s.edges) :
     /\ RelOf(s, e).src = from_label /\ RelOf(s, e).dst = to_label
     /\ e.from = from_id /\ e.to = to_id}

\* MATCH (n1:from)-[r(:label)]->(n2:to) WHERE n1.id = .. AND n2.id = .. RETURN r
MatchEdges(s, from_label, from_id, to_label, to_id, rel_label) ==
  {e \in BagToSet(s.edges) :
     /\ (rel_label = {} \/ e.name \in rel_label)
     /\ RelOf(s, e).src = from_label /\ RelOf(s, e).dst = to_label
     /\ e.from = from_id /\ e.to = to_id}

check_relation_exists(s, from_node, to_node, rel_label) ==
  IF s.node_id[from_node] = None \/ s.node_id[to_node] = None THEN FALSE
  ELSE IF \/ ~_check_node_table_exists(s, get_label(from_node))
          \/ ~_check_node_table_exists(s, get_label(to_node))
          \/ ~_check_rel_table_exists(s, get_label(from_node), get_label(to_node), rel_label)
       THEN FALSE
  ELSE MatchEdges(s, get_label(from_node), s.node_id[from_node].n,
                  get_label(to_node), s.node_id[to_node].n, rel_label) # {}

\* A MATCH query raises (Kuzu's binder error) when it names a node table that
\* the catalog lacks, when its relation pattern names no relation table of
\* the catalog (none at all, when the pattern has no label), and, on a build
\* with a strict binder, when no relation table fits the labels of the
\* pattern's endpoints.  pattern is {} for a query without a relation
\* pattern, {<<from_labels, to_labels, rel_label>>} otherwise, each a set
\* that is {} where the pattern gives no label.
MatchRaises(s, node_labels, pattern) ==
  IF ~(node_labels \subseteq s.node_tables) THEN TRUE
  ELSE \E p \in pattern :
         ~\E row \in s.rel_tables :
            /\ (p[3] = {} \/ row.name \in p[3])
            /\ (s.strict_binder => (p[1] = {} \/ row.src \in p[1]))
            /\ (s.strict_binder => (p[2] = {} \/ row.dst \in p[2]))

\* whether the call raises; its queries are those of the function
check_node_exists_by_class_and_id_raises(s, node_class, id) ==
  IF ~_check_node_table_exists(s, node_class) THEN FALSE
  ELSE MatchRaises(s, {node_class}, {})

check_node_exists_raises(s, o) ==
  IF s.node_id[o] = None THEN FALSE
  ELSE check_node_exists_by_class_and_id_raises(s, ClassOf(o), s.node_id[o].n)

check_relation_exists_raises(s, from_node, to_node, rel_label) ==
  IF s.node_id[from_node] = None \/ s.node_id[to_node] = None THEN FALSE
  ELSE IF \/ ~_check_node_table_exists(s, get_label(from_node))
          \/ ~_check_node_table_exists(s, get_label(to_node))
          \/ ~_check_rel_table_exists(s, get_label(from_node), get_label(to_node), rel_label)
       THEN FALSE
  ELSE MatchRaises(s, {get_label(from_node), get_label(to_node)},
                   {<<{get_label(from_node)}, {get_label(to_node)}, rel_label>>})

\* whether the MATCH query of get_node_by_class_and_id raises
get_node_by_class_and_id_query_raises(s, node_class, id) ==
  IF ~_check_node_table_exists(s, node_class) THEN FALSE
  ELSE MatchRaises(s, {node_class}, {})

\* mutant of _node_to_cypher_mapping_with_parameters: no field is encoded
_node_to_cypher_mapping_with_parameters_plain(s, o) ==
  LET node_dict == s.fields[o] IN
  [f \in {g \in DOMAIN node_dict : node_dict[g] # None} |-> node_dict[f]]

\* the parameters of the CREATE query: the non-null fields, JSON fields encoded
_node_to_cypher_mapping_with_parameters(s, o) ==
  LET node_dict == s.fields[o] IN
  [f \in {g \in DOMAIN node_dict : node_dict[g] # None} |->
     IF CypherTypeAndIsJson(Annotation(ClassOf(o), f))[2]
     THEN PyStr(JSON_CONTENT_PREFIX \o json_dumps(node_dict[f]))
     ELSE node_dict[f]]

\* The CREATE query returns the new row with its SERIAL id, so the two
\* assertions on the query result hold; the assertion on node.id is modelled.
insert_node(s, o) ==
  IF s.node_id[o] # None THEN Raise(s, "AssertionError")
  ELSE LET r == _ensure_node_table(s, o) IN
       IF ~r.ok THEN r
       ELSE LET label == get_label(o)
                parameters == _node_to_cypher_mapping_with_parameters(r.s, o)
                created_object_id == r.s.serial[label]
                row == [label |-> label, id |-> created_object_id,
                        props |-> [c \in DOMAIN r.s.columns[label] |->
                                     IF c \in DOMAIN parameters THEN parameters[c]
                                     ELSE None]]
                s2 == [r.s EXCEPT !.rows = @ \cup {row}, !.serial[label] = @ + 1]
            IN _freeze_node(_set_node_id(s2, o, PyInt(created_object_id)), o)

\* mutant of create_relation: the relation table is ensured before the
\* endpoints are checked
create_relation_table_first(s, from_node, to_node, label) ==
  LET r == _ensure_relation_table(s, from_node, to_node, label) IN
  IF ~r.ok THEN r
  ELSE IF ~check_node_exists(s, from_node) THEN Raise(r.s, "AssertionError")
  ELSE IF ~check_node_exists(s, to_node) THEN Raise(r.s, "AssertionError")
  ELSE Ok([r.s EXCEPT !.edges = @ (+) SetToBag({[name |-> label,
                                                 from |-> s.node_id[from_node].n,
                                                 to |-> s.node_id[to_node].n]})])

create_relation(s, from_node, to_node, label) ==
  IF ~check_node_exists(s, from_node) THEN Raise(s, "AssertionError")
  ELSE IF ~check_node_exists(s, to_node) THEN Raise(s, "AssertionError")
  ELSE LET r == _ensure_relation_table(s, from_node, to_node, label) IN
       IF ~r.ok THEN r
       ELSE Ok([r.s EXCEPT !.edges = @ (+) SetToBag({[name |-> label,
                                                      from |-> s.node_id[from_node].n,
                                                      to |-> s.node_id[to_node].n]})])

\* mutant of upsert_triplet: a failed call leaves the state it found
upsert_triplet_rollback(s, from_node, to_node, label) ==
  LET r1 == IF ~check_node_exists(s, from_node) THEN insert_node(s, from_node) ELSE Ok(s) IN
  IF ~r1.ok THEN Raise(s, r1.err)
  ELSE LET r2 == IF ~check_node_exists(r1.s, to_node) THEN insert_node(r1.s, to_node)
                 ELSE Ok(r1.s) IN
       IF ~r2.ok THEN Raise(s, r2.err)
       ELSE IF ~check_relation_exists(r2.s, from_node, to_node, {label})
            THEN LET r3 == create_relation(r2.s, from_node, to_node, label) IN
                 IF r3.ok THEN r3 ELSE Raise(s, r3.err)
            ELSE r2

upsert_triplet(s, from_node, to_node, label) ==
  LET r1 == IF ~check_node_exists(s, from_node) THEN insert_node(s, from_node) ELSE Ok(s) IN
  IF ~r1.ok THEN r1
  ELSE LET r2 == IF ~check_node_exists(r1.s, to_node) THEN insert_node(r1.s, to_node)
                 ELSE Ok(r1.s) IN
       IF ~r2.ok THEN r2
       ELSE IF ~check_relation_exists(r2.s, from_node, to_node, {label})
            THEN create_relation(r2.s, from_node, to_node, label)
            ELSE r2

\* the edges that leave the node, and those that enter it
OutEdges(s, node_label, id) ==
  {e \in BagToSet(s.edges) : RelOf(s, e).src = node_label /\ e.from = id}

InEdges(s, node_label, id) ==
  {e \in BagToSet(s.edges) : RelOf(s, e).dst = node_label /\ e.to = id}

DeleteEdges(s, gone) == [s EXCEPT !.edges = [e \in DOMAIN @ \ gone |-> @[e]]]

\* mutant of inner_delete_relations: only the outgoing edges are deleted
inner_delete_relations_outgoing(s, node_label, id) ==
  IF s.rel_tables = {} THEN Ok(s)
  ELSE IF MatchRaises(s, {node_label}, {<<{node_label}, {}, {}>>})
       THEN Raise(s, "RuntimeError")
  ELSE Ok(DeleteEdges(s, OutEdges(s, node_label, id)))

\* mutant of inner_delete_relations: the edges are matched by identity alone,
\* whatever the type of the node
inner_delete_relations_any_type(s, node_label, id) ==
  IF s.rel_tables = {} THEN Ok(s)
  ELSE IF MatchRaises(s, {node_label}, {<<{node_label}, {}, {}>>})
       THEN Raise(s, "RuntimeError")
  ELSE LET s1 == DeleteEdges(s, {e \in BagToSet(s.edges) : e.from = id}) IN
       IF MatchRaises(s1, {node_label}, {<<{}, {node_label}, {}>>})
       THEN Raise(s1, "RuntimeError")
       ELSE Ok(DeleteEdges(s1, {e \in BagToSet(s1.edges) : e.to = id}))

\* mutant of inner_delete_relations: only the incoming edges are deleted
inner_delete_relations_incoming(s, node_label, id) ==
  IF s.rel_tables = {} THEN Ok(s)
  ELSE IF MatchRaises(s, {node_label}, {<<{}, {node_label}, {}>>})
       THEN Raise(s, "RuntimeError")
  ELSE Ok(DeleteEdges(s, InEdges(s, node_label, id)))

\* MATCH (n:label)-[r]->() WHERE n.id = node_id DELETE r, then the same for
\* <-[r]-.  The first query is skipped, with the second, when the catalog has
\* no relation table; a query that raises ends the call, and the edges the
\* first query has deleted stay deleted.
inner_delete_relations(s, node_label, id) ==
  IF s.rel_tables = {} THEN Ok(s)
  ELSE IF MatchRaises(s, {node_label}, {<<{node_label}, {}, {}>>})
       THEN Raise(s, "RuntimeError")
  ELSE LET s1 == DeleteEdges(s, OutEdges(s, node_label, id)) IN
       IF MatchRaises(s1, {node_label}, {<<{}, {node_label}, {}>>})
       THEN Raise(s1, "RuntimeError")
       ELSE Ok(DeleteEdges(s1, InEdges(s1, node_label, id)))

\* mutant of inner_delete_node: the table of the last row is dropped with it
inner_delete_node_drop(s, node_label, id) ==
  LET left == s.rows \ RowsOf(s, node_label, id) IN
  [s EXCEPT !.rows = left,
            !.node_tables = IF \E r \in left : r.label = node_label THEN @
                            ELSE @ \ {node_label}]

\* MATCH (n:label) WHERE n.id = node_id DELETE n
inner_delete_node(s, node_label, id) ==
  [s EXCEPT !.rows = @ \ RowsOf(s, node_label, id)]

\* mutant of delete_node: the identity of the node is kept
delete_node_keep_id(s, o) ==
  IF ~check_node_exists(s, o) THEN Raise(s, "AssertionError")
  ELSE LET r1 == inner_delete_relations(s, get_label(o), s.node_id[o].n) IN
       IF ~r1.ok THEN r1
       ELSE Ok(_unfreeze_node(inner_delete_node(r1.s, get_label(o), s.node_id[o].n), o))

\* mutant of delete_node: the node is unfrozen before its existence is checked
delete_node_unfreeze_first(s, o) ==
  IF ~check_node_exists(s, o) THEN Raise(_unfreeze_node(s, o), "AssertionError")
  ELSE LET r1 == inner_delete_relations(s, get_label(o), s.node_id[o].n) IN
       IF ~r1.ok THEN r1
       ELSE LET s2 == inner_delete_node(r1.s, get_label(o), s.node_id[o].n) IN
            Ok(_set_node_id(_unfreeze_node(s2, o), o, None))

\* A query that raises ends the call before the node is unfrozen and its
\* identity cleared.
delete_node(s, o) ==
  IF ~check_node_exists(s, o) THEN Raise(s, "AssertionError")
  ELSE LET r1 == inner_delete_relations(s, get_label(o), s.node_id[o].n) IN
       IF ~r1.ok THEN r1
       ELSE LET s2 == inner_delete_node(r1.s, get_label(o), s.node_id[o].n) IN
            Ok(_set_node_id(_unfreeze_node(s2, o), o, None))

\* setattr(node, f, v), also written node.f = v, for a declared field f.
\* Pydantic looks the field up in the memo of the node's class and, when it
\* is there, assigns without another check.  Otherwise it raises when
\* model_config["frozen"] of the class is set, and when not it assigns and
\* puts the field in the memo.
setattr(s, o, f, v) ==
  IF f \in s.setattr_handlers[ClassOf(o)] THEN Ok([s EXCEPT !.fields[o][f] = v])
  ELSE IF s.frozen[ClassOf(o)] THEN Raise(s, "ValidationError")
  ELSE Ok([s EXCEPT !.fields[o][f] = v,
                    !.setattr_handlers[ClassOf(o)] = @ \cup {f}])

\* MATCH (n:label) WHERE n.id = node_id SET n.name = value RETURN n
SetRowProperty(s, label, id, name, value) ==
  [s EXCEPT !.rows = {IF r.label = label /\ r.id = id
                      THEN [r EXCEPT !.props[name] = value] ELSE r : r \in @}]

\* mutant of set_property: a null value is not refused
set_property_null_accepted(s, o, property_name, property_value) ==
  IF ~_check_node_table_exists(s, get_label(o)) THEN Raise(s, "RuntimeError")
  ELSE IF property_name \notin model_fields(ClassOf(o)) THEN Raise(s, "AssertionError")
  ELSE IF ~check_node_exists(s, o) THEN Raise(s, "AssertionError")
  ELSE IF property_name \notin _get_node_property_names(s, get_label(o))
       THEN Raise(s, "AssertionError")
  ELSE IF ~ValidValue(Annotation(ClassOf(o), property_name), property_value)
       THEN Raise(s, "ValidationError")
  ELSE LET s1 == SetRowProperty(s, get_label(o), s.node_id[o].n, property_name,
                                property_value)
           s2 == setattr(_unfreeze_node(s1, o), o, property_name, property_value).s
       IN _freeze_node(s2, o)

\* The checks are in the order of the code.  _get_node_property_names is
\* called before the assertions and raises when the node table is absent.
set_property(s, o, property_name, property_value) ==
  IF property_value = None THEN Raise(s, "Exception")
  ELSE IF ~_check_node_table_exists(s, get_label(o)) THEN Raise(s, "RuntimeError")
  ELSE IF property_name \notin model_fields(ClassOf(o)) THEN Raise(s, "AssertionError")
  ELSE IF ~check_node_exists(s, o) THEN Raise(s, "AssertionError")
  ELSE IF property_name \notin _get_node_property_names(s, get_label(o))
       THEN Raise(s, "AssertionError")
  ELSE IF ~ValidValue(Annotation(ClassOf(o), property_name), property_value)
       THEN Raise(s, "ValidationError")
  ELSE LET is_json == CypherTypeAndIsJson(Annotation(ClassOf(o), property_name))[2]
           db_property_value == IF is_json
                                THEN PyStr(JSON_CONTENT_PREFIX \o json_dumps(property_value))
                                ELSE property_value
           s1 == SetRowProperty(s, get_label(o), s.node_id[o].n, property_name,
                                db_property_value)
           s2 == setattr(_unfreeze_node(s1, o), o, property_name, property_value).s
       IN _freeze_node(s2, o)

\* run_cypher_query(query, parameters) passes the caller's query to the
\* database.  The queries of the model: CREATE NODE TABLE label (id SERIAL,
\* PRIMARY KEY(id));  MATCH (n:label) WHERE n.id = id DELETE n, which the
\* database refuses for a node that has edges;  MATCH (n:label) WHERE
\* n.id = id SET n.name = value RETURN n, which the binder refuses for a
\* column the table lacks.
run_cypher_query(s, query) ==
  CASE query.kind = "CREATE NODE TABLE" -> CreateNodeTable(s, query.label)
    [] query.kind = "DELETE" ->
         IF MatchRaises(s, {query.label}, {}) THEN Raise(s, "RuntimeError")
         ELSE IF OutEdges(s, query.label, query.id) \cup InEdges(s, query.label, query.id) # {}
              THEN Raise(s, "RuntimeError")
         ELSE Ok(inner_delete_node(s, query.label, query.id))
    [] OTHER ->
         IF MatchRaises(s, {query.label}, {}) THEN Raise(s, "RuntimeError")
         ELSE IF query.name \notin DOMAIN s.columns[query.label]
              THEN Raise(s, "RuntimeError")
         ELSE Ok(SetRowProperty(s, query.label, query.id, query.name, query.value))

(***************************************************************************)
(* get_node_by_class_and_id: [kind, fields] with kind "none" (None is      *)
(* returned), "node" (an object with these field values is returned), or   *)
(* "JSONDecodeError" / "ValidationError" (the call raises).                *)
(***************************************************************************)
\* the loop over node_dict that decodes the values marked as JSON
IsJsonMarked(value) == IsStr(value) /\ StartsWith(value.s, JSON_CONTENT_PREFIX)

DecodeValue(value) ==
  IF IsJsonMarked(value)
  THEN json_loads(DropPrefix(value.s, Len(JSON_CONTENT_PREFIX))).v
  ELSE value

DecodeFails(value) ==
  IsJsonMarked(value) /\ ~json_loads(DropPrefix(value.s, Len(JSON_CONTENT_PREFIX))).ok

\* node_class.parse_obj(node_dict): a field declared without a default has to
\* be given, a field that is not given takes its default (None), a value that
\* is given is validated, and a key that is no field is ignored
parse_obj(node_class, node_dict) ==
  LET given == DOMAIN node_dict \cap model_fields(node_class) IN
  IF /\ \A f \in model_fields(node_class) : is_required(node_class, f) => f \in given
     /\ \A f \in given : ValidValue(Annotation(node_class, f), node_dict[f])
  THEN [kind |-> "node",
        fields |-> [f \in model_fields(node_class) |->
                      IF f \in given THEN node_dict[f] ELSE None]]
  ELSE [kind |-> "ValidationError", fields |-> EmptyFcn]

get_node_by_class_and_id(s, node_class, id) ==
  IF ~_check_node_table_exists(s, node_class) THEN [kind |-> "none", fields |-> EmptyFcn]
  ELSE IF RowsOf(s, node_class, id) = {} THEN [kind |-> "none", fields |-> EmptyFcn]
  ELSE LET row == CHOOSE r \in RowsOf(s, node_class, id) : TRUE IN
       IF \E c \in DOMAIN row.props : DecodeFails(row.props[c])
       THEN [kind |-> "JSONDecodeError", fields |-> EmptyFcn]
       ELSE parse_obj(node_class, [c \in DOMAIN row.props |-> DecodeValue(row.props[c])])

(***************************************************************************)
(* The caller.  The values it puts in fields and passes to set_property:   *)
(* plain strings, strings that begin with the reserved prefix, a list of   *)
(* strings, None, and values of the wrong type.                            *)
(***************************************************************************)
S_q1 == PyStr(<<"q", "1">>)
S_q2 == PyStr(<<"q", "2">>)
S_a2 == PyStr(<<"a", "2">>)
S_t == PyStr(<<"t">>)
\* "JSON__x": the text after the prefix is not JSON
S_json_x == PyStr(JSON_CONTENT_PREFIX \o <<"x">>)
\* "JSON__\"a\"": the text after the prefix is the JSON string "a"
S_json_str == PyStr(JSON_CONTENT_PREFIX \o <<"\"", "a", "\"">>)
\* "JSON__1": the text after the prefix is the JSON number 1
S_json_int == PyStr(JSON_CONTENT_PREFIX \o <<"1">>)
\* "changed"
S_changed == PyStr(<<"c", "h", "a", "n", "g", "e", "d">>)
\* ["abc", "def"]
L_abc_def == PyList(<<PyStr(<<"a", "b", "c">>), PyStr(<<"d", "e", "f">>)>>)
\* [1]
L_int == PyList(<<PyInt(1)>>)

\* the objects as constructed: Question(question="q1"),
\* Question(question="q2", answer="a2"), Topic(name="t")
InitFields ==
  [o \in Objs |->
     CASE o = "q1" -> [question |-> S_q1, answer |-> None, context |-> None]
       [] o = "q2" -> [question |-> S_q2, answer |-> S_a2, context |-> None]
       [] OTHER    -> [name |-> S_t]]

Init ==
  /\ node_id = [o \in Objs |-> None]
  /\ fields = InitFields
  /\ frozen = [c \in Classes |-> FALSE]
  /\ node_tables = {}
  /\ columns = [c \in Classes |-> EmptyFcn]
  /\ serial = [c \in Classes |-> 0]
  /\ rows = {}
  /\ rel_tables = {}
  /\ edges = EmptyBag
  /\ setattr_handlers = [c \in Classes |-> {}]
  /\ strict_binder \in BOOLEAN
  /\ console_locals = EmptyFcn
  /\ console_buffer = <<>>
  /\ sys_stdout = "terminal"

RECURSIVE SumSerial(_, _)
SumSerial(s, cs) ==
  IF cs = {} THEN 0
  ELSE LET c == CHOOSE x \in cs : TRUE IN s.serial[c] + SumSerial(s, cs \ {c})

\* the exploration stops at the bounds
WithinBounds(s) ==
  /\ SumSerial(s, Classes) <= MaxInserts
  /\ NumEdges(s) <= MaxEdges

\* a call ends, returning or raising: the state it leaves becomes the state
Finish(r) ==
  /\ node_id' = r.s.node_id
  /\ fields' = r.s.fields
  /\ frozen' = r.s.frozen
  /\ node_tables' = r.s.node_tables
  /\ columns' = r.s.columns
  /\ serial' = r.s.serial
  /\ rows' = r.s.rows
  /\ rel_tables' = r.s.rel_tables
  /\ edges' = r.s.edges
  /\ setattr_handlers' = r.s.setattr_handlers
  /\ strict_binder' = r.s.strict_binder
  /\ UNCHANGED replVars

InsertNode(o) ==
  LET r == insert_node(State, o) IN
  /\ WithinBounds(r.s)
  /\ Finish(r)

CreateRelation(a, b, label) ==
  LET r == create_relation(State, a, b, label) IN
  /\ WithinBounds(r.s)
  /\ Finish(r)

UpsertTriplet(a, b, label) ==
  LET r == upsert_triplet(State, a, b, label) IN
  /\ WithinBounds(r.s)
  /\ Finish(r)

DeleteNode(o) ==
  LET r == delete_node(State, o) IN
  /\ WithinBounds(r.s)
  /\ Finish(r)

SetProperty(o, f, v) ==
  LET r == set_property(State, o, f, v) IN
  /\ WithinBounds(r.s)
  /\ Finish(r)

SetAttr(o, f, v) ==
  /\ f \in model_fields(ClassOf(o))
  /\ ValidValue(Annotation(ClassOf(o), f), v)
  /\ Finish(setattr(State, o, f, v))

\* the queries the caller passes to run_cypher_query
CreateNodeTableQuery(label) ==
  [kind |-> "CREATE NODE TABLE", label |-> label, id |-> 0, name |-> "", value |-> None]

DeleteQuery(label, id) ==
  [kind |-> "DELETE", label |-> label, id |-> id, name |-> "", value |-> None]

SetQuery(label, id, name, value) ==
  [kind |-> "SET", label |-> label, id |-> id, name |-> name, value |-> value]

RunCypherQuery(query) ==
  LET r == run_cypher_query(State, query) IN
  /\ WithinBounds(r.s)
  /\ Finish(r)

(***************************************************************************)
(* Spec: the graph operations on three node objects of two types.  The     *)
(* field values are those of construction, and set_property sets context   *)
(* (declared on Question, not on Topic).  The caller's own queries delete  *)
(* the row of the first Question and create the table of Topic.            *)
(***************************************************************************)
\* <<from_node, to_node, label>>: what the caller passes to create_relation
\* and upsert_triplet.  The label p joins any two nodes, the label q joins q1
\* to itself and to q2.
RelInputs ==
  {<<a, b, "p">> : a \in Objs, b \in Objs}
    \cup {<<"q1", "q1", "q">>, <<"q1", "q2", "q">>}

RawQueries == {DeleteQuery("Question", 0), CreateNodeTableQuery("Topic")}

Next ==
  \/ \E o \in Objs : InsertNode(o)
  \/ \E i \in RelInputs : CreateRelation(i[1], i[2], i[3])
  \/ \E i \in RelInputs : UpsertTriplet(i[1], i[2], i[3])
  \/ \E o \in Objs : DeleteNode(o)
  \/ \E o \in {"q2", "t1"} : SetProperty(o, "context", L_abc_def)
  \/ \E q \in RawQueries : RunCypherQuery(q)

Spec == Init /\ [][Next]_vars

(***************************************************************************)
(* SpecValues: the node operations on the two Question objects, with the   *)
(* field values and set_property arguments of every kind.                  *)
(***************************************************************************)
\* <<object, field, value>>: what the caller passes to set_property
PropInputs ==
  { <<"q1", "context", L_abc_def>>, <<"q1", "answer", S_a2>>,
    <<"q1", "answer", S_json_str>>, <<"q1", "question", S_json_x>>,
    <<"q1", "answer", PyInt(1)>>, <<"q1", "context", L_int>>,
    <<"q1", "context", S_a2>>, <<"q1", "answer", None>>,
    <<"q1", "bogus", S_a2>>, <<"q2", "context", L_abc_def>> }

\* <<object, field, value>>: what the caller assigns directly
AttrInputs ==
  { <<"q1", "question", S_json_x>>, <<"q1", "answer", S_json_int>>,
    <<"q1", "answer", None>>, <<"q1", "context", L_abc_def>>,
    <<"q2", "answer", S_json_str>> }

ValueObjs == {"q1", "q2"}

\* the queries the caller runs itself
RawQueriesValues ==
  { DeleteQuery("Question", 0), CreateNodeTableQuery("Topic"),
    SetQuery("Question", 0, "answer", S_changed) }

NextValues ==
  \/ \E o \in ValueObjs : InsertNode(o)
  \/ \E o \in ValueObjs : DeleteNode(o)
  \/ \E i \in PropInputs : SetProperty(i[1], i[2], i[3])
  \/ \E i \in AttrInputs : SetAttr(i[1], i[2], i[3])
  \/ \E q \in RawQueriesValues : RunCypherQuery(q)

SpecValues == Init /\ [][NextValues]_vars

(***************************************************************************)
(* PythonREPLTool.  A command is a sequence of tokens: a space, a          *)
(* backtick, the word python, or a statement.  The statements are          *)
(* name = v,  print(name := v),  print(name),  if name:  (the header of a  *)
(* compound statement),  1/0  and  raise SystemExit.  The text of a        *)
(* command is the texts of its tokens one after the other, so two tokens   *)
(* with no space between them are glued: python before  a = 1  is the      *)
(* assignment  pythona = 1.  What print writes is str(v) and a newline.    *)
(***************************************************************************)
Ws == [k |-> "ws"]
Tick == [k |-> "tick"]
PythonWord == [k |-> "python"]

Assign(n, v) == [k |-> "assign", name |-> n, val |-> v]
PrintWalrus(n, v) == [k |-> "print_walrus", name |-> n, val |-> v]
PrintName(n) == [k |-> "print", name |-> n]
IfHeader(n) == [k |-> "if", name |-> n]
DivByZero == [k |-> "div"]
RaiseSystemExit == [k |-> "exit"]

\* the tool as one record
Repl == [locals |-> console_locals, buffer |-> console_buffer, stdout |-> sys_stdout]

RECURSIVE LStrip(_, _)
LStrip(q, kinds) ==
  IF q # <<>> /\ Head(q).k \in kinds THEN LStrip(Tail(q), kinds) ELSE q

RECURSIVE RStrip(_, _)
RStrip(q, kinds) ==
  IF q # <<>> /\ q[Len(q)].k \in kinds THEN RStrip(SubSeq(q, 1, Len(q) - 1), kinds) ELSE q

\* re.sub(r"^(\s|`)*(?i:python)?\s*", "", query), then re.sub(r"(\s|`)*$", "", query)
sanitize_input(query) ==
  LET a == LStrip(query, {"ws", "tick"})
      b == IF a # <<>> /\ Head(a).k = "python" THEN Tail(a) ELSE a
      c == LStrip(b, {"ws"})
  IN RStrip(c, {"ws", "tick"})

\* str(v) + "\n"
Printed(v) == NatToChars(v) \o <<"\n">>

\* the number of tokens python at the head of q
RECURSIVE LeadingPython(_)
LeadingPython(q) ==
  IF q # <<>> /\ Head(q).k = "python" THEN 1 + LeadingPython(Tail(q)) ELSE 0

\* the identifier that p words python glued before name spell
RECURSIVE Glued(_, _)
Glued(p, name) == IF p = 0 THEN name ELSE "python" \o Glued(p - 1, name)

\* q without its first n tokens
Drop(q, n) == SubSeq(q, n + 1, Len(q))

\* what compiling gives: no code (a blank input), a refusal, a statement
\* whose evaluation looks up a name that is not bound, or "if name: body"
NoCode == [k |-> "none"]
Invalid == [k |-> "invalid"]
NameErrorCode == [k |-> "name_error"]
IfThen(n, body) == [k |-> "ifthen", name |-> n, body |-> body]

\* The statement that a run of glued tokens (no space among them) spells, or
\* Invalid.  python... before a name makes a longer name: an assignment binds
\* it, a call of it or a division of it is a NameError, and so is raise of
\* SystemExit with anything glued after it that leaves an expression.  v
\* glued to 1/0 is the number v1 divided by zero.  Everything else glued is
\* not a statement.
simple_stmt(core) ==
  LET p == LeadingPython(core)
      rest == Drop(core, p)
  IN IF core = <<>> THEN Invalid
     ELSE IF rest = <<>> THEN NameErrorCode
     ELSE LET h == rest[1] IN
       CASE h.k = "assign" ->
              IF Len(rest) = 1 THEN Assign(Glued(p, h.name), h.val)
              ELSE IF Len(rest) = 2 /\ rest[2].k = "div" /\ h.val # 0 THEN DivByZero
              ELSE Invalid
         [] h.k \in {"print", "print_walrus"} ->
              IF Len(rest) # 1 THEN Invalid
              ELSE IF p = 0 THEN h ELSE NameErrorCode
         [] h.k = "div" ->
              IF Len(rest) # 1 THEN Invalid
              ELSE IF p = 0 THEN DivByZero ELSE NameErrorCode
         [] h.k = "exit" ->
              IF p > 0 THEN Invalid
              ELSE LET tail == Tail(rest)
                       t2 == Drop(tail, LeadingPython(tail))
                   IN IF tail = <<>> THEN RaiseSystemExit
                      ELSE IF t2 = <<>> THEN NameErrorCode
                      ELSE IF Len(t2) = 1 /\ t2[1].k \in {"print", "print_walrus", "div"}
                      THEN NameErrorCode
                      ELSE Invalid
         [] OTHER -> Invalid

\* codeop's compilation, in 'single' mode, of the console's buffer joined by
\* newlines: [status, code].  The lines are the ones sanitize_input returns,
\* so none starts or ends with a space (none is indented).  Blank lines
\* alone are a complete, empty input.  Two lines that are not blank are
\* never one statement.  One line: a simple statement is complete; a
\* header alone is unfinished input, whatever blank lines follow; a header
\* with its body on the same line is unfinished input until a blank line
\* follows it; anything else is a syntax error.
compile_command(buffer) ==
  LET lines == {i \in 1..Len(buffer) : buffer[i] # <<>>} IN
  IF lines = {} THEN [status |-> "complete", code |-> NoCode]
  ELSE IF Cardinality(lines) > 1 THEN [status |-> "SyntaxError", code |-> NoCode]
  ELSE LET i == CHOOSE j \in lines : TRUE
           line == buffer[i]
           core == RStrip(line, {"ws"})
       IN IF line[1].k = "ws" THEN [status |-> "SyntaxError", code |-> NoCode]
          ELSE IF line[1].k = "if"
          THEN LET body == LStrip(Tail(core), {"ws"})
                   code == simple_stmt(body)
               IN IF body = <<>> THEN [status |-> "incomplete", code |-> NoCode]
                  ELSE IF code.k = "invalid" THEN [status |-> "SyntaxError", code |-> NoCode]
                  ELSE IF i = Len(buffer) THEN [status |-> "incomplete", code |-> NoCode]
                  ELSE [status |-> "complete", code |-> IfThen(line[1].name, code)]
          ELSE LET code == simple_stmt(core)
               IN IF code.k = "invalid" THEN [status |-> "SyntaxError", code |-> NoCode]
                  ELSE [status |-> "complete", code |-> code]

\* InteractiveInterpreter.runsource up to the call of runcode: a syntax error
\* (shown on sys.stderr), unfinished input, or a complete input to run.
runsource(buffer) == compile_command(buffer).status

\* exec of one simple statement in the console's locals
exec_stmt(locals, stmt) ==
  CASE stmt.k = "assign" ->
         [locals |-> [n \in DOMAIN locals \cup {stmt.name} |->
                        IF n = stmt.name THEN stmt.val ELSE locals[n]],
          out |-> <<>>, raised |-> ""]
    [] stmt.k = "print_walrus" ->
         [locals |-> [n \in DOMAIN locals \cup {stmt.name} |->
                        IF n = stmt.name THEN stmt.val ELSE locals[n]],
          out |-> Printed(stmt.val), raised |-> ""]
    [] stmt.k = "print" ->
         [locals |-> locals,
          out |-> IF stmt.name \in DOMAIN locals THEN Printed(locals[stmt.name]) ELSE <<>>,
          raised |-> ""]
    [] stmt.k = "exit" -> [locals |-> locals, out |-> <<>>, raised |-> "SystemExit"]
    [] OTHER -> [locals |-> locals, out |-> <<>>, raised |-> ""]

\* InteractiveInterpreter.runcode: exec of the compiled input in the
\* console's locals.  The body of an if runs when the name is bound to a
\* value that is not zero.  SystemExit is raised on; any other exception (a
\* name that is not bound, a division by zero) is caught and its traceback
\* goes to sys.stderr.
runcode(locals, code) ==
  IF code.k = "ifthen"
  THEN IF code.name \in DOMAIN locals /\ locals[code.name] # 0
       THEN exec_stmt(locals, code.body)
       ELSE [locals |-> locals, out |-> <<>>, raised |-> ""]
  ELSE exec_stmt(locals, code)

\* InteractiveConsole.push(line): the line joins the buffer, the buffer is run
\* when it is a complete input, and it is reset unless more input is needed.
\* An exception that leaves runcode leaves push before the reset.
push(t, line) ==
  LET buffer == Append(t.buffer, line)
      more == runsource(buffer)
  IN IF more = "incomplete"
     THEN [locals |-> t.locals, buffer |-> buffer, out |-> <<>>, raised |-> ""]
     ELSE IF more = "SyntaxError"
     THEN [locals |-> t.locals, buffer |-> <<>>, out |-> <<>>, raised |-> ""]
     ELSE LET r == runcode(t.locals, compile_command(buffer).code) IN
          IF r.raised # ""
          THEN [locals |-> r.locals, buffer |-> buffer, out |-> r.out, raised |-> r.raised]
          ELSE [locals |-> r.locals, buffer |-> <<>>, out |-> r.out, raised |-> ""]

\* the exceptions that "except Exception" catches
ExceptionClasses == {"ZeroDivisionError", "NameError", "SyntaxError"}

\* PythonREPLTool.run: [t, kind, out, exc].  kind is "return" (out is the
\* returned text) or "raise" (exc leaves run).  sys.stdout is set to a new
\* StringIO before the push, and back to old_stdout on the two paths that
\* return.
run(t, command) ==
  LET cleaned_command == sanitize_input(command)
      old_stdout == t.stdout
      p == push(t, cleaned_command)
  IN IF p.raised = ""
     THEN [t |-> [locals |-> p.locals, buffer |-> p.buffer, stdout |-> old_stdout],
           kind |-> "return", out |-> p.out, exc |-> ""]
     ELSE IF p.raised \in ExceptionClasses
     THEN [t |-> [locals |-> p.locals, buffer |-> p.buffer, stdout |-> old_stdout],
           kind |-> "return", out |-> <<>>, exc |-> p.raised]
     ELSE [t |-> [locals |-> p.locals, buffer |-> p.buffer, stdout |-> "StringIO"],
           kind |-> "raise", out |-> <<>>, exc |-> p.raised]

Run(command) ==
  LET r == run(Repl, command) IN
  /\ Len(r.t.buffer) <= MaxLines
  /\ console_locals' = r.t.locals
  /\ console_buffer' = r.t.buffer
  /\ sys_stdout' = r.t.stdout
  /\ UNCHANGED storeVars

(***************************************************************************)
(* SpecRepl: one tool instance and the commands a caller gives it, bare or *)
(* wrapped in a markdown fence.  A caller that gets SystemExit from run    *)
(* goes on using the tool.  The console's buffer holds at most MaxLines    *)
(* lines.                                                                  *)
(***************************************************************************)
Names == {"a", "b", "c"}

\* ```python <statement> ```
Fenced(stmt) ==
  <<Tick, Tick, Tick, PythonWord, Ws, stmt, Ws, Tick, Tick, Tick>>

Statements ==
  {Assign(n, v) : n \in Names, v \in 1..MaxValue}
    \cup {PrintWalrus(n, v) : n \in Names, v \in 1..MaxValue}
    \cup {PrintName(n) : n \in Names}
    \cup {IfHeader("a"), DivByZero, RaiseSystemExit}

\* if name: body, on one line
InlineIf(n, body) == <<IfHeader(n), Ws, body>>

\* an if with its body on its line, the empty command (a blank line, which
\* ends such an if), and statements with tokens glued before or after them
Commands ==
  {<<stmt>> : stmt \in Statements}
    \cup {Fenced(stmt) : stmt \in Statements}
    \cup {InlineIf("a", body) : body \in {PrintName("a"), Assign("b", 1), RaiseSystemExit}}
    \cup {InlineIf("c", PrintName("a"))}
    \cup {<<>>, <<PythonWord, PythonWord, PrintName("a")>>, <<Assign("a", 1), DivByZero>>,
          <<PrintName("a"), Ws, PrintName("a")>>}

NextRepl == \E command \in Commands : Run(command)

SpecRepl == Init /\ [][NextRepl]_vars

(***************************************************************************)
(* Properties.  A property of an operation is stated on the operation      *)
(* applied to every reachable state: the state the call leaves (r.s) and   *)
(* whether it returned (r.ok).                                             *)
(***************************************************************************)
NumRows(s) == Cardinality(s.rows)

\* the edges of s that leave or enter the row (label, id)
IncidentEdges(s, label, id) ==
  {e \in BagToSet(s.edges) :
     \/ (RelOf(s, e).src = label /\ e.from = id)
     \/ (RelOf(s, e).dst = label /\ e.to = id)}

\* the object has an identity that no row has: its row was deleted by a
\* query of the caller's own
Stale(s, o) == s.node_id[o] # None /\ ~check_node_exists(s, o)

\* C1: insert_node on a transient node succeeds and leaves the node with an
\* identity and existing in the database; a second insert_node on the now
\* persisted node fails and adds no row.
C1_InsertPersists ==
  \A o \in Objs :
    node_id[o] = None =>
      LET r == insert_node(State, o)
          again == insert_node(r.s, o)
      IN /\ r.ok
         /\ r.s.node_id[o] # None
         /\ check_node_exists(r.s, o)
         /\ NumRows(r.s) = NumRows(State) + 1
         /\ ~again.ok
         /\ again.s.rows = r.s.rows

\* a node that was inserted: it has an identity and a row, and inserting it
\* again is refused
C1_Witness ==
  \E o \in Objs :
    /\ node_id[o] # None
    /\ check_node_exists(State, o)
    /\ ~insert_node(State, o).ok

\* C2 (as claimed): for any nodes A, B (transient, or persisted with their
\* rows) and any label, two upsert_triplet calls in sequence leave exactly one
\* edge (A.id, B.id, label) and one row for each of A and B; the second call
\* inserts no node and creates no edge.
C2_UpsertIdempotent ==
  \A a \in Objs, b \in Objs, l \in Labels :
    LET r1 == upsert_triplet(State, a, b, l)
        r2 == upsert_triplet(r1.s, a, b, l)
    IN (~Stale(State, a) /\ ~Stale(State, b)) =>
       /\ r1.ok /\ r2.ok
       /\ r2.s.node_id[a] # None /\ r2.s.node_id[b] # None
       /\ CopiesIn([name |-> l, from |-> r2.s.node_id[a].n, to |-> r2.s.node_id[b].n],
                   r2.s.edges) = 1
       /\ Cardinality(RowsOf(r2.s, ClassOf(a), r2.s.node_id[a].n)) = 1
       /\ Cardinality(RowsOf(r2.s, ClassOf(b), r2.s.node_id[b].n)) = 1
       /\ r2.s.rows = r1.s.rows
       /\ r2.s.edges = r1.s.edges

\* C3: when delete_node on a persisted node (one with an identity and a row)
\* has returned, the node does not exist, has no identity and is mutable
\* again, no edge that had the node as source or as destination is left, and
\* get_node_by_class_and_id of the old identity returns None.  The call
\* returns whenever the database accepts its two DELETE queries: always on a
\* build whose binder does not check the labels of a relation pattern.
C3_DeleteNode ==
  \A o \in Objs :
    check_node_exists(State, o) =>
      LET r == delete_node(State, o)
          old == node_id[o].n
      IN /\ ~strict_binder => r.ok
         /\ r.ok =>
              /\ ~check_node_exists(r.s, o)
              /\ r.s.node_id[o] = None
              /\ ~r.s.frozen[ClassOf(o)]
              /\ \A f \in model_fields(ClassOf(o)) : setattr(r.s, o, f, S_t).ok
              /\ IncidentEdges(r.s, ClassOf(o), old) = {}
              /\ get_node_by_class_and_id(r.s, ClassOf(o), old).kind = "none"
              /\ ~check_node_exists_by_class_and_id(r.s, ClassOf(o), old)

\* a node that had edges was deleted by delete_node: an identity its table
\* has handed out has no row and no object holds it (every object with an
\* identity has its row), and the edges that a relation table once received
\* are all gone
C3_Witness ==
  \E o \in Objs :
    /\ node_id[o] = None
    /\ serial[ClassOf(o)] > 0
    /\ \E n \in 0..(serial[ClassOf(o)] - 1) : RowsOf(State, ClassOf(o), n) = {}
    /\ \A x \in Objs : ~Stale(State, x)
    /\ rel_tables # {}
    /\ edges = EmptyBag
    /\ rows # {}

\* C4 (as claimed): a persisted node is immutable at every point between
\* calls, whatever operations are applied to other nodes: a direct assignment
\* to any of its fields raises.
C4_PersistedIsFrozen ==
  \A o \in Objs :
    check_node_exists(State, o) =>
      \A f \in model_fields(ClassOf(o)) : ~setattr(State, o, f, S_t).ok

\* C5 (as claimed): get_node_by_class_and_id of a persisted node returns an
\* object whose every field equals the field of the node.
C5_RoundTrip ==
  \A o \in Objs :
    check_node_exists(State, o) =>
      LET g == get_node_by_class_and_id(State, ClassOf(o), node_id[o].n)
      IN /\ g.kind = "node"
         /\ g.fields = fields[o]

\* set_property arguments whose value is not of the field's declared type
InvalidPropInputs ==
  { <<"q1", "answer", PyInt(1)>>, <<"q1", "context", L_int>>, <<"q1", "context", S_a2>> }

\* C6: set_property with a value that fails the validation of the field's
\* declared type fails and leaves the stored rows, the fields of the node
\* objects and the frozen flags as they were.
C6_ValidateBeforeWrite ==
  \A i \in InvalidPropInputs :
    LET r == set_property(State, i[1], i[2], i[3])
    IN /\ ~r.ok
       /\ r.s.rows = rows
       /\ r.s.fields = fields
       /\ r.s.frozen = frozen

\* q1 is persisted with a stored context, and set_property of a list of
\* integers to context is refused by the validation
C6_Witness ==
  /\ node_id["q1"] # None
  /\ \E row \in RowsOf(State, "Question", node_id["q1"].n) : row.props["context"] # None
  /\ set_property(State, "q1", "context", L_int).err = "ValidationError"

\* C7 (as claimed): after a successful set_property(N, f, v), N.f is v and the
\* field f of get_node_by_class_and_id(type(N), N.id) is v.
C7_SetPropertyReadBack ==
  \A i \in PropInputs :
    LET o == i[1]
        r == set_property(State, o, i[2], i[3])
        g == get_node_by_class_and_id(r.s, ClassOf(o), r.s.node_id[o].n)
    IN r.ok =>
         /\ r.s.fields[o][i[2]] = i[3]
         /\ g.kind = "node"
         /\ g.fields[i[2]] = i[3]

\* the edges of s between the rows of the objects a and b, in either direction
EdgesBetween(s, a, b) ==
  MatchEdges(s, ClassOf(a), s.node_id[a].n, ClassOf(b), s.node_id[b].n, {})
    \cup MatchEdges(s, ClassOf(b), s.node_id[b].n, ClassOf(a), s.node_id[a].n, {})

\* C8: after upsert_triplet(A, B, p) on two distinct nodes whose only edges are
\* then the edges p from A to B, the relation exists from A to B with label p
\* and without label, does not exist from B to A, and does not exist from A to
\* B with any other label.
C8_DirectionAndLabel ==
  \A a \in Objs, b \in Objs, p \in Labels :
    LET r == upsert_triplet(State, a, b, p)
    IN (/\ a # b
        /\ r.ok
        /\ EdgesBetween(r.s, a, b) =
             {[name |-> p, from |-> r.s.node_id[a].n, to |-> r.s.node_id[b].n]})
       => /\ check_relation_exists(r.s, a, b, {p})
          /\ check_relation_exists(r.s, a, b, {})
          /\ ~check_relation_exists(r.s, b, a, {})
          /\ \A q \in Labels \ {p} : ~check_relation_exists(r.s, a, b, {q})

\* two distinct nodes of one type joined by one edge p, where a relation table
\* of the other label between the same types exists, and so does a relation
\* table from the type to itself for the reverse direction
C8_Witness ==
  \E a \in Objs, b \in Objs, p \in Labels :
    /\ a # b
    /\ ClassOf(a) = ClassOf(b)
    /\ node_id[a] # None /\ node_id[b] # None
    /\ EdgesBetween(State, a, b) =
         {[name |-> p, from |-> node_id[a].n, to |-> node_id[b].n]}
    /\ \E t \in rel_tables : t.name # p /\ t.src = ClassOf(a) /\ t.dst = ClassOf(b)
    /\ upsert_triplet(State, a, b, p).s = State

\* C9 (as claimed): create_relation and upsert_triplet between persisted nodes
\* succeed for a label that a relation table between another pair of node types
\* already uses, and leave a relation table for the triple.
C9_RelTablePerTriple ==
  \A a \in Objs, b \in Objs, l \in Labels :
    (/\ check_node_exists(State, a)
     /\ check_node_exists(State, b)
     /\ \E t \in rel_tables :
          t.name = l /\ <<t.src, t.dst>> # <<get_label(a), get_label(b)>>)
    => LET r == create_relation(State, a, b, l)
           u == upsert_triplet(State, a, b, l)
       IN /\ r.ok
          /\ _check_rel_table_exists(r.s, get_label(a), get_label(b), {l})
          /\ u.ok
          /\ _check_rel_table_exists(u.s, get_label(a), get_label(b), {l})

\* C10: no step removes a node table, a relation table or a column, or changes
\* the storage type of a column.
C10_SchemaOnlyGrows ==
  [][/\ node_tables \subseteq node_tables'
     /\ rel_tables \subseteq rel_tables'
     /\ \A c \in Classes :
          /\ DOMAIN columns[c] \subseteq DOMAIN columns'[c]
          /\ \A f \in DOMAIN columns[c] : columns'[c][f] = columns[c][f]]_vars

\* the last node of a type was deleted: its table and columns are there, and
\* so is a relation table, with no row left in the database
C10_Witness ==
  /\ rows = {}
  /\ node_tables # {}
  /\ rel_tables # {}
  /\ \E c \in node_tables : DOMAIN columns[c] # {}

\* C11: create_relation with an endpoint that is not in the database (no
\* identity, or no row of that identity) fails, and leaves the catalog, the
\* rows, the edges and the node objects as they were.
C11_CreateRelationNeedsBoth ==
  \A a \in Objs, b \in Objs, l \in Labels :
    (~check_node_exists(State, a) \/ ~check_node_exists(State, b)) =>
      LET r == create_relation(State, a, b, l)
      IN /\ ~r.ok
         /\ r.err = "AssertionError"
         /\ r.s.rel_tables = rel_tables
         /\ r.s.node_tables = node_tables
         /\ r.s.edges = edges
         /\ r.s.rows = rows
         /\ r.s.node_id = node_id
         /\ r.s.fields = fields
         /\ r.s.frozen = frozen

\* one endpoint is persisted and the other has no identity, no relation table
\* of the label exists between their types, and create_relation is refused;
\* it is refused as well for an endpoint whose identity has no row
C11_Witness ==
  \E a \in Objs, b \in Objs, l \in Labels :
    /\ check_node_exists(State, a)
    /\ node_id[b] = None
    /\ _check_node_table_exists(State, get_label(b))
    /\ ~_check_rel_table_exists(State, get_label(a), get_label(b), {l})
    /\ l \notin CatalogNames(State)
    /\ ~create_relation(State, a, b, l).ok
    /\ ~create_relation(State, b, a, l).ok
    /\ \E c \in Objs : Stale(State, c) /\ ~create_relation(State, a, c, l).ok

\* the label arguments of check_relation_exists: omitted, or one label
RelLabelArgs == {{}} \cup {{l} : l \in Labels}

\* C12: check_node_exists, check_node_exists_by_class_and_id,
\* check_relation_exists and get_node_by_class_and_id never raise for a
\* not-found condition; they return False / None when the node has no
\* identity, when the node table or the relation table is absent, and when no
\* row or edge matches.
C12_NotFoundIsResult ==
  /\ \A o \in Objs :
       /\ ~check_node_exists_raises(State, o)
       /\ (\/ node_id[o] = None
           \/ ClassOf(o) \notin node_tables
           \/ \A r \in rows : ~(r.label = ClassOf(o) /\ PyInt(r.id) = node_id[o]))
          => ~check_node_exists(State, o)
  /\ \A c \in Classes, id \in 0..MaxInserts :
       /\ ~check_node_exists_by_class_and_id_raises(State, c, id)
       /\ ~get_node_by_class_and_id_query_raises(State, c, id)
       /\ (c \notin node_tables \/ \A r \in rows : ~(r.label = c /\ r.id = id))
          => /\ ~check_node_exists_by_class_and_id(State, c, id)
             /\ get_node_by_class_and_id(State, c, id).kind = "none"
  /\ \A a \in Objs, b \in Objs, rl \in RelLabelArgs :
       /\ ~check_relation_exists_raises(State, a, b, rl)
       /\ (\/ node_id[a] = None \/ node_id[b] = None
           \/ ClassOf(a) \notin node_tables \/ ClassOf(b) \notin node_tables
           \/ \A t \in rel_tables :
                ~(t.src = ClassOf(a) /\ t.dst = ClassOf(b) /\ (rl = {} \/ t.name \in rl))
           \/ \A e \in BagToSet(edges) :
                ~(/\ PyInt(e.from) = node_id[a] /\ PyInt(e.to) = node_id[b]
                  /\ (rl = {} \/ e.name \in rl)
                  /\ RelOf(State, e).src = ClassOf(a) /\ RelOf(State, e).dst = ClassOf(b)))
          => ~check_relation_exists(State, a, b, rl)

\* the not-found conditions at once: a transient node whose table is absent,
\* two persisted nodes with a relation table of one label between their types
\* and none of the other label, an edge one way and none the other way, a
\* label whose relation table joins other node types than those asked for,
\* and an identity that no row has
C12_Witness ==
  /\ node_id["t1"] = None /\ "Topic" \notin node_tables
  /\ node_id["q1"] # None /\ node_id["q2"] # None
  /\ rel_tables = {[name |-> "p", src |-> "Question", dst |-> "Question"]}
  /\ check_relation_exists(State, "q1", "q2", {"p"})
  /\ ~check_relation_exists(State, "q2", "q1", {"p"})
  /\ ~check_relation_exists(State, "q1", "q2", {"q"})
  /\ ~check_relation_exists(State, "q1", "t1", {"p"})
  /\ get_node_by_class_and_id(State, "Question", MaxInserts).kind = "none"

\* C13: check_node_exists of a node without identity is False, whatever rows
\* the table of the node's type holds.
C13_TransientNotExists ==
  \A o \in Objs : node_id[o] = None => ~check_node_exists(State, o)

\* a node that had an identity and has none now, while the table of its type
\* holds the row of identity 0
C13_Witness ==
  \E o \in Objs :
    /\ node_id[o] = None
    /\ check_node_exists_by_class_and_id(State, ClassOf(o), 0)
    /\ serial[ClassOf(o)] >= 2

\* set_property arguments of every kind, for any node: a declared field with
\* a valid value, a null value, a field that is not declared, a wrong type
LifecyclePropArgs ==
  { <<"context", L_abc_def>>, <<"answer", S_a2>>, <<"name", S_t>>,
    <<"answer", None>>, <<"bogus", S_a2>>, <<"context", L_int>> }

\* C14: a persisted node whose delete_node has returned can be inserted
\* again, and again after a second delete_node; each insert_node succeeds and
\* leaves the node with an identity, existing and with the frozen flag of its
\* class set; the second delete_node returns when the first did.
\* set_property, whether it returns or raises, leaves the identity of every
\* node and whether the node exists as they were.
C14_Lifecycle ==
  \A o \in Objs :
    /\ check_node_exists(State, o) =>
         LET d1 == delete_node(State, o)
             i1 == insert_node(d1.s, o)
             d2 == delete_node(i1.s, o)
             i2 == insert_node(d2.s, o)
         IN /\ ~strict_binder => d1.ok
            /\ d1.ok =>
                 /\ d1.s.node_id[o] = None
                 /\ i1.ok /\ i1.s.node_id[o] # None
                 /\ check_node_exists(i1.s, o) /\ i1.s.frozen[ClassOf(o)]
                 /\ d2.ok /\ d2.s.node_id[o] = None
                 /\ i2.ok /\ i2.s.node_id[o] # None
                 /\ check_node_exists(i2.s, o) /\ i2.s.frozen[ClassOf(o)]
    /\ \A a \in LifecyclePropArgs :
         LET r == set_property(State, o, a[1], a[2])
         IN /\ r.s.node_id = node_id
            /\ check_node_exists(r.s, o) = check_node_exists(State, o)

\* the one Topic node has its second identity: it was inserted, deleted and
\* inserted again, and set_property on it succeeds
C14_Witness ==
  /\ node_id["t1"] = PyInt(1)
  /\ check_node_exists(State, "t1")
  /\ frozen["Topic"]
  /\ set_property(State, "t1", "name", S_t).ok

\* C15: delete_node of a node that is not in the database fails, deletes no row
\* and no edge, and leaves the identity and the frozen flag as they were.
C15_DeleteNeedsNode ==
  \A o \in Objs :
    ~check_node_exists(State, o) =>
      LET r == delete_node(State, o)
      IN /\ ~r.ok
         /\ r.err = "AssertionError"
         /\ r.s.rows = rows
         /\ r.s.edges = edges
         /\ r.s.node_id = node_id
         /\ r.s.frozen = frozen

\* a node without identity, whose type is frozen by another node of the
\* type, and a node whose identity no row has, while the database holds a row
\* with an edge: delete_node is refused for both nodes
C15_Witness ==
  /\ \E o \in Objs :
       /\ node_id[o] = None
       /\ frozen[ClassOf(o)]
       /\ ~delete_node(State, o).ok
  /\ \E r \in rows : IncidentEdges(State, r.label, r.id) # {}
  /\ \E o \in Objs : Stale(State, o) /\ ~delete_node(State, o).ok

\* the database as it is when the table of label has no column for field f
\* (a table created before the field was declared); no sequence of store
\* operations leaves a persisted node in this state (C20)
WithoutColumn(s, label, f) ==
  [s EXCEPT !.columns[label] = [c \in DOMAIN @ \ {f} |-> @[c]],
            !.rows = {IF r.label = label
                      THEN [r EXCEPT !.props = [c \in DOMAIN @ \ {f} |-> @[c]]]
                      ELSE r : r \in @}]

\* a valid value for each declared field of Question
ValidPropArgs ==
  { <<"question", S_q2>>, <<"answer", S_a2>>, <<"answer", S_json_str>>,
    <<"context", L_abc_def>> }

\* C16: set_property fails and leaves the database and the node objects as
\* they were when the value is null, when the field is not declared on the
\* node's type, when the node is not in the database, and when the node's
\* table has no column for the field.
C16_SetPropertyRejects ==
  \A o \in ValueObjs :
    /\ \A f \in model_fields(ClassOf(o)) \cup {"bogus"} :
         LET r == set_property(State, o, f, None)
         IN ~r.ok /\ r.s = State
    /\ \A f \in {"bogus", "name"} :
         LET r == set_property(State, o, f, S_a2)
         IN ~r.ok /\ r.s = State
    /\ ~check_node_exists(State, o) =>
         \A a \in ValidPropArgs :
           LET r == set_property(State, o, a[1], a[2])
           IN ~r.ok /\ r.s = State
    /\ check_node_exists(State, o) =>
         \A a \in ValidPropArgs :
           LET s0 == WithoutColumn(State, ClassOf(o), a[1])
               r == set_property(s0, o, a[1], a[2])
           IN ~r.ok /\ r.err = "AssertionError" /\ r.s = s0

\* q1 is persisted with a null answer and q2 is not persisted: a null value
\* and an undeclared field are refused for q1, a valid value is refused for
\* q2, and a valid value is refused for q1 once the column is taken away
C16_Witness ==
  /\ check_node_exists(State, "q1")
  /\ fields["q1"]["answer"] = None
  /\ node_id["q2"] = None
  /\ set_property(State, "q1", "answer", S_a2).ok
  /\ set_property(State, "q1", "answer", None).err = "Exception"
  /\ set_property(State, "q1", "bogus", S_a2).err = "AssertionError"
  /\ set_property(State, "q2", "answer", S_a2).err = "AssertionError"
  /\ ~set_property(WithoutColumn(State, "Question", "answer"), "q1", "answer", S_a2).ok

\* C17 (as claimed): every name that a command of an earlier run has bound is
\* visible to the command of a later run, and run returns what its command
\* prints: run of print(name) returns str of the bound value and a newline.
C17_StatePreserved ==
  \A n \in DOMAIN console_locals :
    LET r == run(Repl, <<PrintName(n)>>)
    IN /\ r.kind = "return"
       /\ r.out = Printed(console_locals[n])

\* the bag b without the elements of the set drop
BagWithout(b, drop) == [e \in DOMAIN b \ drop |-> b[e]]

\* C18: delete_node of a persisted node N, whether it returns or a query of
\* it raises, leaves every other row as it was, field values included, leaves
\* every edge that neither leaves nor enters N with its multiplicity, adds no
\* edge, and leaves the identity and the fields of every other node object
\* and the catalog as they were; when it returns, the row of N and the edges
\* of N are what it has removed.
C18_DeleteFrame ==
  \A o \in Objs :
    check_node_exists(State, o) =>
      LET r == delete_node(State, o)
          id == node_id[o].n
          others == {x \in rows : ~(x.label = ClassOf(o) /\ x.id = id)}
          incident == IncidentEdges(State, ClassOf(o), id)
      IN /\ ~strict_binder => r.ok
         /\ others \subseteq r.s.rows /\ r.s.rows \subseteq rows
         /\ DOMAIN r.s.edges \subseteq DOMAIN edges
         /\ \A e \in DOMAIN edges \ incident :
              e \in DOMAIN r.s.edges /\ r.s.edges[e] = edges[e]
         /\ r.ok => /\ r.s.rows = others
                    /\ r.s.edges = BagWithout(edges, incident)
         /\ \A p \in Objs \ {o} :
              /\ r.s.node_id[p] = node_id[p]
              /\ r.s.fields[p] = fields[p]
              /\ check_node_exists(r.s, p) = check_node_exists(State, p)
         /\ r.s.node_tables = node_tables
         /\ r.s.rel_tables = rel_tables

\* three persisted nodes; the node to delete has an edge, and a node of the
\* other type with the same identity has an edge that does not touch the node
\* to delete
C18_Witness ==
  \E o \in Objs, p \in Objs, q \in Objs :
    /\ o # p /\ o # q
    /\ check_node_exists(State, o) /\ check_node_exists(State, p)
    /\ check_node_exists(State, q)
    /\ IncidentEdges(State, ClassOf(o), node_id[o].n) # {}
    /\ ClassOf(o) # ClassOf(p)
    /\ node_id[o] = node_id[p]
    /\ \E e \in BagToSet(edges) :
         /\ e \notin IncidentEdges(State, ClassOf(o), node_id[o].n)
         /\ e \in IncidentEdges(State, ClassOf(p), node_id[p].n)
    /\ delete_node(State, o).ok

\* C19: when upsert_triplet raises, the error of the failed step is what the
\* caller gets (the assertion of insert_node for an endpoint whose identity
\* has no row, the database's error for the relation), and what the earlier
\* steps did stays: a from_node without identity is inserted; so is a to_node
\* without identity, unless the insertion of from_node has failed.  An
\* endpoint the call has inserted has its identity and a row, the frozen flag
\* of its class is set, and it has no edge; the rows that were there and the
\* edges are as before.
C19_UpsertNotAtomic ==
  \A a \in Objs, b \in Objs, l \in Labels :
    LET r == upsert_triplet(State, a, b, l)
        inserted == {x \in {a, b} : node_id[x] = None /\ r.s.node_id[x] # None}
    IN ~r.ok =>
         /\ r.err = IF Stale(State, a) \/ Stale(State, b) THEN "AssertionError"
                    ELSE "RuntimeError"
         /\ r.s.edges = edges
         /\ rows \subseteq r.s.rows
         /\ NumRows(r.s) = NumRows(State) + Cardinality(inserted)
         /\ node_id[a] = None => a \in inserted
         /\ (node_id[b] = None /\ ~Stale(State, a)) => b \in inserted
         /\ \A x \in Objs \ inserted : r.s.node_id[x] = node_id[x]
         /\ \A x \in inserted :
              /\ check_node_exists(r.s, x)
              /\ r.s.frozen[ClassOf(x)]
              /\ IncidentEdges(r.s, ClassOf(x), r.s.node_id[x].n) = {}

\* both endpoints are transient, one of each type, and the label names a
\* relation table between other types: upsert_triplet inserts the two nodes
\* and then fails to create the relation
C19_Witness ==
  \E a \in Objs, b \in Objs, l \in Labels :
    /\ ClassOf(a) # ClassOf(b)
    /\ node_id[a] = None /\ node_id[b] = None
    /\ ~upsert_triplet(State, a, b, l).ok
    /\ rows # {}

\* C20: insert_node leaves a column for every field declared on the node's
\* type, null-valued fields included, so that in every state set_property of a
\* valid non-null value to a declared field of a persisted node finds the
\* column and succeeds.
C20_ColumnsForAllFields ==
  \A o \in ValueObjs :
    /\ node_id[o] = None =>
         LET r == insert_node(State, o)
         IN /\ r.ok
            /\ model_fields(ClassOf(o)) \subseteq _get_node_property_names(r.s, get_label(o))
            /\ \A row \in RowsOf(r.s, get_label(o), r.s.node_id[o].n) :
                 \A f \in model_fields(ClassOf(o)) :
                   fields[o][f] = None => row.props[f] = None
    /\ check_node_exists(State, o) =>
         /\ model_fields(ClassOf(o)) \subseteq _get_node_property_names(State, get_label(o))
         /\ \A a \in ValidPropArgs : set_property(State, o, a[1], a[2]).ok

\* q1 was inserted with answer and context null: both are columns, stored as
\* NULL, and set_property of each succeeds
C20_Witness ==
  /\ check_node_exists(State, "q1")
  /\ \E row \in RowsOf(State, "Question", node_id["q1"].n) :
       row.props["answer"] = None /\ row.props["context"] = None
  /\ set_property(State, "q1", "answer", S_a2).ok
  /\ set_property(State, "q1", "context", L_abc_def).ok

\* the annotations of the fixed type mapping
MappedAnnotations ==
  {"int", "Optional[int]", "str", "Optional[str]",
   "float", "Optional[float]", "bool", "Optional[bool]"}

\* what the JSON rule stores for the value v of the field f of class cls
StoredAs(cls, f, v) ==
  IF Annotation(cls, f) \in MappedAnnotations THEN v
  ELSE PyStr(<<"J", "S", "O", "N", "_", "_">> \o json_dumps(v))

\* C21: insert_node and set_property store a non-null value the same way: for
\* a field whose annotation is outside the fixed mapping, the reserved prefix
\* followed by the JSON text of the value; for a field of a mapped type, the
\* value itself.  Every non-null value in a column of the first kind is the
\* prefix followed by a JSON text, in every reachable state.
C21_JsonRuleOnWrites ==
  /\ \A o \in ValueObjs :
       /\ node_id[o] = None =>
            LET r == insert_node(State, o)
            IN \A row \in RowsOf(r.s, get_label(o), r.s.node_id[o].n) :
                 \A f \in model_fields(ClassOf(o)) :
                   fields[o][f] # None =>
                     row.props[f] = StoredAs(ClassOf(o), f, fields[o][f])
       /\ \A a \in ValidPropArgs :
            LET r == set_property(State, o, a[1], a[2])
            IN r.ok =>
                 \A row \in RowsOf(r.s, get_label(o), r.s.node_id[o].n) :
                   row.props[a[1]] = StoredAs(ClassOf(o), a[1], a[2])
  /\ \A row \in rows :
       \A f \in DOMAIN row.props :
         (row.props[f] # None /\ Annotation(row.label, f) \notin MappedAnnotations) =>
           /\ IsStr(row.props[f])
           /\ StartsWith(row.props[f].s, <<"J", "S", "O", "N", "_", "_">>)
           /\ LET text == DropPrefix(row.props[f].s, 6)
              IN json_loads(text).ok /\ json_dumps(json_loads(text).v) = text

\* q1 is about to be inserted with a list in context and a string that begins
\* with the prefix in a field of a mapped type, while the row of q2 holds a
\* context that set_property has stored
C21_Witness ==
  /\ node_id["q1"] = None
  /\ fields["q1"]["context"] = L_abc_def
  /\ fields["q1"]["question"] = S_json_x
  /\ node_id["q2"] # None
  /\ \E row \in RowsOf(State, "Question", node_id["q2"].n) :
       row.props["context"] = StoredAs("Question", "context", L_abc_def)
  /\ insert_node(State, "q1").ok

\* C22 (as claimed): the store holds at most one edge for any source
\* identity, destination identity and label.
C22_OneEdgePerTriple ==
  \A e \in BagToSet(edges) : CopiesIn(e, edges) = 1

\* C23: both endpoints of every stored edge are rows of the node tables that
\* the edge's relation table joins.
C23_NoDanglingEdges ==
  \A e \in BagToSet(edges) :
    /\ \E t \in rel_tables : t.name = e.name
    /\ \E r \in rows : r.label = RelOf(State, e).src /\ r.id = e.from
    /\ \E r \in rows : r.label = RelOf(State, e).dst /\ r.id = e.to

\* a node was deleted before (an identity its table has handed out has no
\* row), and a persisted node whose edges are a self-loop and an edge from
\* another persisted node is about to be deleted
C23_Witness ==
  \E o \in Objs, p \in Objs :
    /\ o # p
    /\ check_node_exists(State, o) /\ check_node_exists(State, p)
    /\ \E c \in Classes : \E n \in 0..(serial[c] - 1) : RowsOf(State, c, n) = {}
    /\ MatchEdges(State, ClassOf(o), node_id[o].n, ClassOf(o), node_id[o].n, {}) # {}
    /\ MatchEdges(State, ClassOf(p), node_id[p].n, ClassOf(o), node_id[o].n, {}) # {}
    /\ delete_node(State, o).s.edges = EmptyBag

\* C24 (as claimed): a node object without identity accepts a direct
\* assignment to each of its fields, in every reachable state.
C24_TransientIsMutable ==
  \A o \in Objs :
    node_id[o] = None =>
      \A f \in model_fields(ClassOf(o)) : setattr(State, o, f, S_t).ok

\* C25 (as claimed): whenever run ends, by returning or by an exception that
\* leaves it, sys.stdout is the stream it was before the call.
C25_StdoutRestored ==
  \A command \in Commands :
    run(Repl, command).t.stdout = sys_stdout

=============================================================================
